---- MODULE Spec2Model ----
(***************************************************************************)
(* A model of dataprep/eda/eda_frame.py: the EDAFrame wrapper over a dask  *)
(* DataFrame, its array view (_values), nullity view (_nulls), the cached  *)
(* dtype / missing-count maps, the string-coercion cache, head and shape.  *)
(*                                                                         *)
(* Python objects that are mutated in place are kept in heaps and held by  *)
(* reference: the dask arrays behind _values (arrays) and the dicts behind *)
(* _str_col_cache (caches).  Everything else is held by value.             *)
(***************************************************************************)
EXTENDS Integers, Sequences, FiniteSets, TLC

VARIABLES frames, arrays, caches, last, cols_in, cols_out, ncalls

vars == <<frames, arrays, caches, last, cols_in, cols_out, ncalls>>

(***************************************************************************)
(* Bounds of the model.                                                    *)
(***************************************************************************)
MaxFrames == 2
MaxLabels == 3
MaxCalls == 4

(***************************************************************************)
(* Program constants.                                                      *)
(***************************************************************************)
\* 128 * 1024 * 1024, the divisor of df_size in __init__
ChunkBytes == 134217728
\* n of _detect_dtypes' head and of head()'s default are not modelled as
\* numbers; NaN, the unknown length of a dask chunk, is encoded as -1.
Nan == -1
\* the dict object of the class attribute EDAFrame._str_col_cache
ClassCache == 1

(***************************************************************************)
(* Generic helpers.                                                        *)
(***************************************************************************)
Range(s) == {s[i] : i \in DOMAIN s}

Min(a, b) == IF a < b THEN a ELSE b

IsDistinct(s) == \A i, j \in DOMAIN s : i # j => s[i] # s[j]

\* all sequences over S of length lo..hi
SeqsOf(S, lo, hi) == UNION {[1..n -> S] : n \in lo..hi}

\* sequence.index(x): the first position of x in s
IndexOf(s, x) == CHOOSE i \in DOMAIN s : s[i] = x /\ \A j \in 1..(i - 1) : s[j] # x

\* as Take below, taking the first of the positions every time
TakeFirst(s, idx) == [k \in DOMAIN idx |-> s[idx[1]]]

\* s[idx] for a list of positions idx
Take(s, idx) == [k \in DOMAIN idx |-> s[idx[k]]]

RECURSIVE SumSeq(_)
SumSeq(s) == IF s = <<>> THEN 0 ELSE s[1] + SumSeq(Tail(s))

\* math.ceil(a / b) for a >= 0, b > 0
Ceil(a, b) == (a + b - 1) \div b

(***************************************************************************)
(* Column labels.  An input label is a str or an int; str() of it is what  *)
(* _process_column_name works on.                                          *)
(***************************************************************************)
StrLabel(s) == [isInt |-> FALSE, n |-> 0, s |-> s]
IntLabel(n) == [isInt |-> TRUE, n |-> n, s |-> ""]

\* str(label)
Str(l) == IF l.isInt THEN ToString(l.n) ELSE l.s

\* as Counter below, counting every label once
CounterOnes(columns) == [c \in Range(columns) |-> 1]

\* collections.Counter(columns)
Counter(columns) ==
    [c \in Range(columns) |-> Cardinality({i \in DOMAIN columns : columns[i] = c})]

\* the loop body of _process_column_name for index i, and the rest of the loop
RECURSIVE ProcessLoop(_, _, _, _)
ProcessLoop(columns, column_count, current_id, i) ==
    IF i > Len(columns) THEN columns
    ELSE LET col == columns[i] IN
         IF column_count[col] > 1
         THEN LET ids == [current_id EXCEPT ![col] = @ + 1]
                  new_col_name == col \o "_" \o ToString(ids[col])
              IN  ProcessLoop([columns EXCEPT ![i] = new_col_name],
                              column_count, ids, i + 1)
         ELSE ProcessLoop([columns EXCEPT ![i] = col], column_count, current_id, i + 1)

\* as _process_column_name, but numbering the occurrences of a label from 0
ProcessColumnNameFromZero(df_columns) ==
    LET columns == [i \in DOMAIN df_columns |-> Str(df_columns[i])]
    IN  ProcessLoop(columns, Counter(columns), [c \in Range(columns) |-> -1], 1)

\* _process_column_name(df_columns)
ProcessColumnName(df_columns) ==
    LET columns == [i \in DOMAIN df_columns |-> Str(df_columns[i])]
    IN  ProcessLoop(columns, Counter(columns), [c \in Range(columns) |-> 0], 1)

(***************************************************************************)
(* Native dtypes and numpy's promotion, restricted to the three dtypes the *)
(* model's tables use.                                                     *)
(***************************************************************************)
DtypeRank(t) == CASE t = "int64" -> 1 [] t = "float64" -> 2 [] OTHER -> 3

\* np.promote_types(a, b)
PromoteTypes(a, b) == IF DtypeRank(a) >= DtypeRank(b) THEN a ELSE b

\* reduce(np.promote_types, dtypes); the dtype of a table without columns is
\* pandas' default, float64
RECURSIVE PromoteFrom(_, _, _)
PromoteFrom(acc, dtypes, i) ==
    IF i > Len(dtypes) THEN acc
    ELSE PromoteFrom(PromoteTypes(acc, dtypes[i]), dtypes, i + 1)

PromoteAll(dtypes) ==
    IF dtypes = <<>> THEN "float64" ELSE PromoteFrom(dtypes[1], dtypes, 2)

(***************************************************************************)
(* Raw inputs: the tables handed to EDAFrame(df, ...).  Each column has a  *)
(* label, a native dtype, the semantic dtype detect_dtype returns for it   *)
(* and the number of missing cells.  A dask input carries its partitions'  *)
(* row counts; a pandas input its row count and deep memory size.          *)
(***************************************************************************)
MiB == 1048576

DaskInput ==
    [kind |-> "dask",
     labels |-> <<StrLabel("a"), StrLabel("b")>>,
     native |-> <<"int64", "object">>,
     sem |-> <<"Continuous", "Nominal">>,
     missing |-> <<0, 1>>,
     parts |-> <<1, 2>>, nrows |-> 3, df_size |-> 0]

PandasInput ==
    [kind |-> "pandas",
     labels |-> <<StrLabel("a"), IntLabel(1), IntLabel(1)>>,
     native |-> <<"float64", "int64", "object">>,
     sem |-> <<"Continuous", "Continuous", "Nominal">>,
     missing |-> <<1, 0, 0>>,
     parts |-> <<>>, nrows |-> 3, df_size |-> 200 * MiB]

RawInputs == {DaskInput, PandasInput}

\* a dask table with the labels of DaskInput, one partition and no missing cell
CleanDaskInput == [DaskInput EXCEPT !.missing = <<0, 0>>, !.parts = <<3>>]

FastInputs == {DaskInput, CleanDaskInput}

\* pd.DataFrame(): no column, no row, and an empty object index, so that
\* memory_usage(deep=True).sum() is 0
EmptyPandasInput ==
    [kind |-> "pandas", labels |-> <<>>, native |-> <<>>, sem |-> <<>>, missing |-> <<>>,
     parts |-> <<>>, nrows |-> 0, df_size |-> 0]

\* in-memory tables of the sizes around the multiples of 128 MiB
Sizes == {1, ChunkBytes - 1, ChunkBytes, ChunkBytes + 1, 2 * ChunkBytes, 2 * ChunkBytes + 1}

SizedInputs == {EmptyPandasInput} \cup {[PandasInput EXCEPT !.df_size = sz] : sz \in Sizes}

\* npartitions = ceil(df_size / 128 / 1024 / 1024)
NPartitions(df_size) == Ceil(df_size, ChunkBytes)

\* the partitions' row counts of dd.from_pandas(df, npartitions=npartitions):
\* chunksize = ceil(nrows / npartitions) rows per partition, at least one partition
FromPandasNPartitions(nrows, npartitions) ==
    LET chunksize == Ceil(nrows, npartitions) IN
    IF nrows = 0 THEN <<0>>
    ELSE [k \in 1..Ceil(nrows, chunksize) |-> Min(chunksize, nrows - (k - 1) * chunksize)]

\* the partitions' row counts of dd.from_pandas(df, chunksize=-1): one partition
FromPandasOneChunk(nrows) == <<nrows>>

(***************************************************************************)
(* Lazy tables, arrays and series.                                         *)
(***************************************************************************)
\* the sum of chunk lengths along an axis: nan as soon as one of them is nan
SumChunks(c) == IF \E k \in DOMAIN c : c[k] = Nan THEN Nan ELSE SumSeq(c)

\* dask Array.shape, derived from its chunks
ArrayShape(chunks) == <<SumChunks(chunks[1]), SumChunks(chunks[2])>>

FreeArray == [free |-> TRUE, tbl |-> 0, pos |-> <<>>, chunks |-> <<>>, dtype |-> "none"]

\* ddf.to_dask_array(lengths=lengths): one block per partition, one column chunk
ToDaskArray(ddf, lengths) ==
    [free |-> FALSE, tbl |-> ddf.tbl, pos |-> ddf.pos,
     chunks |-> <<IF lengths THEN ddf.parts ELSE [k \in DOMAIN ddf.parts |-> Nan],
                  <<Len(ddf.columns)>> >>,
     dtype |-> PromoteAll(ddf.native)]

\* ddf.isnull().to_dask_array(): lengths unknown
IsNullToDaskArray(ddf) ==
    [kind |-> "lazy", tbl |-> ddf.tbl, pos |-> ddf.pos,
     chunks |-> <<[k \in DOMAIN ddf.parts |-> Nan], <<Len(ddf.columns)>> >>,
     nrows |-> Nan]

\* as the assignment below, left out
AlignChunksSkipped(nulls, values) == nulls

\* self._nulls._chunks = self.values.chunks
AlignChunks(nulls, values) == [nulls EXCEPT !.chunks = values.chunks]

\* x[:, cidx] of a dask array
SliceArray(arr, cidx) ==
    [arr EXCEPT !.pos = Take(arr.pos, cidx), !.chunks = <<arr.chunks[1], <<Len(cidx)>> >>]

\* x[:, cidx] of the nullity view: a dask array, or a numpy array once materialized
SliceNulls(nulls, cidx) ==
    IF nulls.kind = "ndarray" THEN [nulls EXCEPT !.pos = Take(nulls.pos, cidx)]
    ELSE [nulls EXCEPT !.pos = Take(nulls.pos, cidx),
                       !.chunks = <<nulls.chunks[1], <<Len(cidx)>> >>]

\* the chunks of the nullity view; a numpy array has none
NullsChunks(nulls) == nulls.chunks

\* the shape of the nullity view
NullsShape(nulls) ==
    IF nulls.kind = "ndarray" THEN <<nulls.nrows, Len(nulls.pos)>>
    ELSE ArrayShape(nulls.chunks)

NoSeries == [by |-> 0, tbl |-> 0, pos |-> 0, how |-> "none", serial |-> 0]
NoShape == [cached |-> FALSE, rows |-> 0, ncols |-> 0]
NoHead == [cached |-> FALSE, n |-> 0, rows |-> 0, tbl |-> 0, columns |-> <<>>, pos |-> <<>>]

\* an ordered dict, as a sequence of items
Keys(d) == [k \in DOMAIN d |-> d[k].k]
Lookup(d, key) == d[IndexOf(Keys(d), key)].v

(***************************************************************************)
(* The heaps.                                                              *)
(***************************************************************************)
\* the first slot of the array heap no instance refers to
AllocArray ==
    CHOOSE k \in 1..(Len(arrays) + 1) :
        /\ k \in DOMAIN arrays => arrays[k].free
        /\ \A j \in 1..(k - 1) : ~arrays[j].free

StoreArray(arrs, k, obj) ==
    IF k \in DOMAIN arrs THEN [arrs EXCEPT ![k] = obj] ELSE Append(arrs, obj)

\* array objects no instance refers to any more are collected
Collect(arrs, frs) ==
    [k \in DOMAIN arrs |->
        IF \E i \in DOMAIN frs : frs[i].values = k THEN arrs[k] ELSE FreeArray]

\* how __init__ partitioned an in-memory table: whether repartitioning was asked
\* for, df_size, and the number of partitions it went for; NoPart otherwise
NoPart == [pandas |-> FALSE, repartition |-> FALSE, df_size |-> 0, npartitions |-> 0]

\* the record of the call made last: its arguments and its outcome; tick
\* alternates between 1 and 2 from one call to the next
Call(op, inst) ==
    [op |-> op, inst |-> inst, col |-> "", flag |-> FALSE, mode |-> "", cols |-> <<>>,
     n |-> 0, ret |-> NoSeries, err |-> FALSE, coerced |-> FALSE, new |-> 0,
     part |-> NoPart, tick |-> 3 - last.tick]

\* self._ddf[col]: a new series object over column col of the table, made by a
\* call on instance by.  Objects are told apart by who made them, from which
\* column and how; a column handed out directly is a new object at every call,
\* and the tick of the call that made it tells it from the object the call
\* before returned, which the caller may still hold.
GetColumn(by, ddf, col) ==
    [by |-> by, tbl |-> ddf.tbl, pos |-> ddf.pos[IndexOf(ddf.columns, col)],
     how |-> "column", serial |-> 3 - last.tick]

(***************************************************************************)
(* Init: no instance yet; the class-level _str_col_cache dict is empty.    *)
(***************************************************************************)
NoCall ==
    [op |-> "init", inst |-> 0, col |-> "", flag |-> FALSE, mode |-> "", cols |-> <<>>,
     n |-> 0, ret |-> NoSeries, err |-> FALSE, coerced |-> FALSE, new |-> 0,
     part |-> NoPart, tick |-> 2]

Init ==
    /\ frames = <<>>
    /\ arrays = <<>>
    /\ caches = <<{}>>
    /\ last = NoCall
    /\ cols_in = <<>>
    /\ cols_out = <<>>
    /\ ncalls = 0

(***************************************************************************)
(* EDAFrame(df, value_length, repartition) for a dask or pandas DataFrame. *)
(***************************************************************************)
\* the instance __init__ builds from a dask DataFrame with partitions parts
RawFrame(id, df, parts, lengths, values_ref) ==
    LET columns == ProcessColumnName(df.labels)
        eda_dtypes == [k \in DOMAIN columns |-> [k |-> columns[k], v |-> df.sem[k]]]
        ddf == [tbl |-> id, columns |-> columns, pos |-> [k \in DOMAIN columns |-> k],
                parts |-> parts,
                native |-> [k \in DOMAIN columns |->
                              IF df.sem[k] = "Nominal" THEN "object" ELSE df.native[k]]]
        values == ToDaskArray(ddf, lengths)
    IN  [ddf |-> ddf,
         columns |-> ddf.columns,
         values |-> values_ref,
         nulls |-> AlignChunks(IsNullToDaskArray(ddf), values),
         nulls_cnt |-> [k \in DOMAIN columns |-> [k |-> columns[k], v |-> df.missing[k]]],
         eda_dtypes |-> eda_dtypes,
         str_col_cache |-> ClassCache,
         head |-> NoHead,
         shape |-> NoShape,
         origin |-> [kind |-> "raw", from |-> 0]]

ConstructRaw(df, value_length, repartition) ==
    /\ Len(frames) < MaxFrames
    /\ IsDistinct(ProcessColumnName(df.labels))
    /\ LET is_pandas == df.kind = "pandas"
           npartitions == NPartitions(df.df_size)
           parts == IF ~is_pandas THEN df.parts
                    ELSE IF repartition THEN FromPandasNPartitions(df.nrows, npartitions)
                    ELSE FromPandasOneChunk(df.nrows)
           id == Len(frames) + 1
           ref == AllocArray
           f == RawFrame(id, df, parts, value_length \/ is_pandas, ref)
           part == IF ~is_pandas THEN NoPart
                   ELSE [pandas |-> TRUE, repartition |-> repartition, df_size |-> df.df_size,
                         npartitions |-> IF repartition THEN npartitions ELSE 1]
       IN  IF is_pandas /\ repartition /\ npartitions = 0
           THEN \* dd.from_pandas divides the row count by npartitions:
                \* ZeroDivisionError, and no instance
                /\ last' = [Call("construct", 0) EXCEPT !.err = TRUE, !.part = part]
                /\ UNCHANGED <<frames, arrays>>
           ELSE /\ frames' = Append(frames, f)
                /\ arrays' = StoreArray(arrays, ref, ToDaskArray(f.ddf, value_length \/ is_pandas))
                /\ last' = [Call("construct", id) EXCEPT !.new = id, !.part = part]
    /\ UNCHANGED <<caches, cols_in, cols_out>>

\* EDAFrame(df) for another EDAFrame: every attribute is taken over by reference
ConstructCopy(i) ==
    /\ Len(frames) < MaxFrames
    /\ i \in DOMAIN frames
    /\ frames' = Append(frames, [frames[i] EXCEPT !.origin = [kind |-> "copy", from |-> i]])
    /\ last' = [Call("copy", i) EXCEPT !.new = Len(frames) + 1]
    /\ UNCHANGED <<arrays, caches, cols_in, cols_out>>

(***************************************************************************)
(* The shape property and head().                                          *)
(***************************************************************************)
\* as the shape property, without keeping the tuple in self._shape
ReadShapeUncached(f, arrs) == f

\* the instance after self.shape has been evaluated
ReadShape(f, arrs) ==
    IF ~f.shape.cached
    THEN LET sh == ArrayShape(arrs[f.values].chunks)
         IN  [f EXCEPT !.shape = [cached |-> TRUE, rows |-> sh[1], ncols |-> sh[2]]]
    ELSE f

Shape(i) ==
    /\ i \in DOMAIN frames
    /\ frames' = [frames EXCEPT ![i] = ReadShape(frames[i], arrays)]
    /\ last' = Call("shape", i)
    /\ UNCHANGED <<arrays, caches, cols_in, cols_out>>

\* self.frame.head(n=n): at most n rows, taken from the first partition
FrameHead(ddf, n) ==
    [cached |-> TRUE, n |-> n, rows |-> Min(n, ddf.parts[1]), tbl |-> ddf.tbl,
     columns |-> ddf.columns, pos |-> ddf.pos]

\* as ReadHead below, reading the table at every call
ReadHeadUncached(f, n) == [f EXCEPT !.head = FrameHead(f.ddf, n)]

\* the instance after self.head(n) has been evaluated
ReadHead(f, n) == IF ~f.head.cached THEN [f EXCEPT !.head = FrameHead(f.ddf, n)] ELSE f

head(i, n) ==
    /\ i \in DOMAIN frames
    /\ frames' = [frames EXCEPT ![i] = ReadHead(frames[i], n)]
    /\ last' = [Call("head", i) EXCEPT !.n = n]
    /\ UNCHANGED <<arrays, caches, cols_in, cols_out>>

(***************************************************************************)
(* get_col_as_str(col, na_as_str).                                         *)
(***************************************************************************)
\* as the membership test below, never finding the key
InCacheNever(cache, col, na_as_str) == FALSE

\* (col, na_as_str) in self._str_col_cache
InCache(cache, col, na_as_str) == \E e \in cache : e.col = col /\ e.flag = na_as_str

\* self._str_col_cache[(col, na_as_str)]
CacheGet(cache, col, na_as_str) ==
    (CHOOSE e \in cache : e.col = col /\ e.flag = na_as_str).ser

\* self._str_col_cache[(col, na_as_str)] = ser
CachePut(cache, col, na_as_str, ser) ==
    {e \in cache : ~(e.col = col /\ e.flag = na_as_str)}
        \cup {[col |-> col, flag |-> na_as_str, ser |-> ser]}

\* the case for directly return
DirectReturn(f, col, na_as_str) ==
    /\ Lookup(f.eda_dtypes, col) = "Nominal"
    /\ \/ (na_as_str /\ Lookup(f.nulls_cnt, col) = 0)
       \/ ~na_as_str

\* self._ddf[col].astype(str).persist(), or
\* self._ddf[col].apply(_to_str_if_not_na, ...).persist(): the one object this
\* instance ever stores under (col, na_as_str)
Coerce(by, ddf, col, na_as_str) ==
    [GetColumn(by, ddf, col) EXCEPT
        !.how = IF na_as_str THEN "astype_str" ELSE "str_if_not_na", !.serial = 0]

GetColAsStr(i, col, na_as_str) ==
    /\ i \in DOMAIN frames
    /\ LET f == frames[i]
           d == f.str_col_cache
           call == [Call("get_col_as_str", i) EXCEPT !.col = col, !.flag = na_as_str]
       IN  IF col \notin Range(f.columns)
           THEN /\ last' = [call EXCEPT !.err = TRUE]
                /\ UNCHANGED caches
           ELSE IF InCache(caches[d], col, na_as_str)
           THEN /\ last' = [call EXCEPT !.ret = CacheGet(caches[d], col, na_as_str)]
                /\ UNCHANGED caches
           ELSE IF DirectReturn(f, col, na_as_str)
           THEN /\ last' = [call EXCEPT !.ret = GetColumn(i, f.ddf, col)]
                /\ UNCHANGED caches
           ELSE LET ser == Coerce(i, f.ddf, col, na_as_str)
                IN  /\ caches' = [caches EXCEPT ![d] = CachePut(@, col, na_as_str, ser)]
                    /\ last' = [call EXCEPT !.ret = ser, !.coerced = TRUE]
    /\ UNCHANGED <<frames, arrays, cols_in, cols_out>>

(***************************************************************************)
(* compute(type).                                                          *)
(***************************************************************************)
\* type == "lengths"
ComputeLengths(i) ==
    /\ i \in DOMAIN frames
    /\ LET f == ReadShape(frames[i], arrays)
           not_computed == f.shape.rows = Nan
           ref == AllocArray
           values == ToDaskArray(f.ddf, TRUE)
           g == [f EXCEPT !.values = ref,
                          !.nulls = AlignChunks(IsNullToDaskArray(f.ddf), values)]
       IN  IF not_computed
           THEN /\ frames' = [frames EXCEPT ![i] = g]
                /\ arrays' = Collect(StoreArray(arrays, ref, values), frames')
           ELSE /\ frames' = [frames EXCEPT ![i] = f]
                /\ UNCHANGED arrays
    /\ last' = [Call("compute", i) EXCEPT !.mode = "lengths"]
    /\ UNCHANGED <<caches, cols_in, cols_out>>

\* the chunks dask.compute returns for the blocks of the nullity view: every
\* block's actual shape, one block per partition of the table
ActualChunks(f) == <<f.ddf.parts, <<Len(f.nulls.pos)>> >>

\* the nullity view materialized: a numpy array
Materialized(f) ==
    [kind |-> "ndarray", tbl |-> f.nulls.tbl, pos |-> f.nulls.pos, chunks |-> <<>>,
     nrows |-> SumSeq(f.ddf.parts)]

\* type == "nulls"; a numpy array has no map_blocks, so the call raises once
\* the nullity view is materialized
ComputeNulls(i) ==
    /\ i \in DOMAIN frames
    /\ LET f == frames[i]
           call == [Call("compute", i) EXCEPT !.mode = "nulls"]
       IN  IF f.nulls.kind = "ndarray"
           THEN /\ last' = [call EXCEPT !.err = TRUE]
                /\ UNCHANGED <<frames, arrays>>
           ELSE /\ frames' = [frames EXCEPT ![i].nulls = Materialized(f)]
                /\ arrays' = [arrays EXCEPT ![f.values].chunks = ActualChunks(f)]
                /\ last' = call
    /\ UNCHANGED <<caches, cols_in, cols_out>>

\* as below, with self.shape evaluated before type is looked at
ComputeOtherAfterShape(i, type) ==
    /\ i \in DOMAIN frames
    /\ type \notin {"lengths", "nulls"}
    /\ frames' = [frames EXCEPT ![i] = ReadShape(frames[i], arrays)]
    /\ last' = [Call("compute", i) EXCEPT !.mode = type, !.err = TRUE]
    /\ UNCHANGED <<arrays, caches, cols_in, cols_out>>

\* any other type: ValueError
ComputeOther(i, type) ==
    /\ i \in DOMAIN frames
    /\ type \notin {"lengths", "nulls"}
    /\ last' = [Call("compute", i) EXCEPT !.mode = type, !.err = TRUE]
    /\ UNCHANGED <<frames, arrays, caches, cols_in, cols_out>>

(***************************************************************************)
(* self[indexer]: projection onto some columns.                            *)
(***************************************************************************)
\* the labels an indexer selects: a str stands for the one-element list
IndexerCols(indexer) == IF indexer.isStr THEN <<indexer.s>> ELSE indexer.seq

\* self._ddf[indexer]: the table narrowed to the columns cols, in that order
SubFrame(ddf, cols) ==
    LET at == [k \in DOMAIN cols |-> IndexOf(ddf.columns, cols[k])]
    IN  [ddf EXCEPT !.columns = cols, !.pos = Take(ddf.pos, at),
                    !.native = Take(ddf.native, at)]

\* as below, with the positions in the source's column order
ColumnIndexSourceOrder(f, subdf) ==
    LET at == {IndexOf(f.columns, subdf.columns[k]) : k \in DOMAIN subdf.columns}
    IN  CHOOSE q \in [1..Cardinality(at) -> at] : \A k \in 1..(Cardinality(at) - 1) : q[k] < q[k + 1]

\* [self.columns.get_loc(col) for col in subdf.columns]
ColumnIndex(f, subdf) == [k \in DOMAIN subdf.columns |-> IndexOf(f.columns, subdf.columns[k])]

\* self.head()[subdf.columns] when the source holds a head; the class default otherwise
ProjectHead(f, subdf) ==
    IF f.head.cached
    THEN [f.head EXCEPT !.columns = subdf.columns,
                        !.pos = [k \in DOMAIN subdf.columns |->
                                   f.head.pos[IndexOf(f.head.columns, subdf.columns[k])]]]
    ELSE NoHead

\* as below, without the test on the column
ProjectCacheUnfiltered(cache, columns) == cache

\* the entries of the source's cache copied into the new dict
ProjectCache(cache, columns) == {e \in cache : e.col \in Range(columns)}

\* the array view of the projection: the slice, recast to the promoted dtype of
\* the retained columns when there is any column
ProjectValues(arr, cidx, subdf) ==
    LET sliced == SliceArray(arr, cidx)
        dtype == PromoteAll(subdf.native)
    IN  IF Len(subdf.columns) # 0 /\ sliced.dtype # dtype
        THEN [sliced EXCEPT !.dtype = dtype]
        ELSE sliced

\* as ProjectFrame below, with df._str_col_cache = self._str_col_cache and the
\* entries of the other columns left in it
ProjectFrameSharingCache(f, cols, src, values_ref, cache_ref, values) ==
    LET subdf == SubFrame(f.ddf, cols)
        cidx == ColumnIndex(f, subdf)
        sh == ArrayShape(values.chunks)
    IN  [ddf |-> subdf,
         columns |-> subdf.columns,
         values |-> values_ref,
         nulls |-> SliceNulls(f.nulls, cidx),
         nulls_cnt |-> [k \in DOMAIN cols |-> [k |-> cols[k], v |-> Lookup(f.nulls_cnt, cols[k])]],
         eda_dtypes |-> [k \in DOMAIN cols |-> [k |-> cols[k], v |-> Lookup(f.eda_dtypes, cols[k])]],
         str_col_cache |-> f.str_col_cache,
         head |-> ProjectHead(f, subdf),
         shape |-> [cached |-> TRUE, rows |-> sh[1], ncols |-> sh[2]],
         origin |-> [kind |-> "proj", from |-> src]]

\* the instance __getitem__ returns
ProjectFrame(f, cols, src, values_ref, cache_ref, values) ==
    LET subdf == SubFrame(f.ddf, cols)
        cidx == ColumnIndex(f, subdf)
        sh == ArrayShape(values.chunks)
    IN  [ddf |-> subdf,
         columns |-> subdf.columns,
         values |-> values_ref,
         nulls |-> SliceNulls(f.nulls, cidx),
         nulls_cnt |-> [k \in DOMAIN cols |-> [k |-> cols[k], v |-> Lookup(f.nulls_cnt, cols[k])]],
         eda_dtypes |-> [k \in DOMAIN cols |-> [k |-> cols[k], v |-> Lookup(f.eda_dtypes, cols[k])]],
         str_col_cache |-> cache_ref,
         head |-> ProjectHead(f, subdf),
         shape |-> [cached |-> TRUE, rows |-> sh[1], ncols |-> sh[2]],
         origin |-> [kind |-> "proj", from |-> src]]

\* an indexer naming an absent label surfaces the table's KeyError; indexers that
\* repeat a label are outside the contract of the projection and are not drawn
GetItem(i, indexer) ==
    /\ Len(frames) < MaxFrames
    /\ i \in DOMAIN frames
    /\ IsDistinct(IndexerCols(indexer))
    /\ LET f == frames[i]
           cols == IndexerCols(indexer)
           call == Call("getitem", i)
           id == Len(frames) + 1
           ref == AllocArray
           dict == Len(caches) + 1
           subdf == SubFrame(f.ddf, cols)
           values == ProjectValues(arrays[f.values], ColumnIndex(f, subdf), subdf)
       IN  IF ~(Range(cols) \subseteq Range(f.ddf.columns))
           THEN /\ last' = [call EXCEPT !.err = TRUE]
                /\ UNCHANGED <<frames, arrays, caches>>
           ELSE /\ frames' = Append(frames, ProjectFrame(f, cols, i, ref, dict, values))
                /\ arrays' = StoreArray(arrays, ref, values)
                /\ caches' = Append(caches, ProjectCache(caches[f.str_col_cache], cols))
                /\ last' = [call EXCEPT !.new = id, !.cols = cols]
    /\ UNCHANGED <<cols_in, cols_out>>

(***************************************************************************)
(* The arguments the calls are made with.                                  *)
(***************************************************************************)
\* a label no table has
AbsentLabel == "zz"

\* n of head(n): a short sample and the default
HeadDefault == 5
HeadSizes == {1, HeadDefault}

LabelsOf(i) == Range(frames[i].columns) \cup {AbsentLabel}

Indexers(i) ==
    {[isStr |-> TRUE, s |-> c, seq |-> <<>>] : c \in LabelsOf(i)}
        \cup {[isStr |-> FALSE, s |-> "", seq |-> q] :
                q \in {r \in SeqsOf(LabelsOf(i), 0, MaxLabels) : IsDistinct(r)}}

(***************************************************************************)
(* _process_column_name on its own: the input labels are drawn in the      *)
(* initial state and the function is applied to them.                      *)
(***************************************************************************)
InputLabels == {StrLabel("a"), StrLabel("b"), StrLabel("a_1"), StrLabel("1"), IntLabel(1)}

InitCols ==
    /\ frames = <<>>
    /\ arrays = <<>>
    /\ caches = <<{}>>
    /\ last = NoCall
    /\ cols_in \in SeqsOf(InputLabels, 1, MaxLabels)
    /\ cols_out = <<>>
    /\ ncalls = 0

ApplyProcessColumnName ==
    /\ last.op = "init"
    /\ cols_out' = ProcessColumnName(cols_in)
    /\ last' = Call("process_column_name", 0)
    /\ UNCHANGED <<frames, arrays, caches, cols_in, ncalls>>

NextCols == ApplyProcessColumnName

SpecCols == InitCols /\ [][NextCols]_vars

(***************************************************************************)
(* The specifications.  Spec makes every call on every instance, at most   *)
(* MaxCalls calls in all; the others make some of the calls, any number of *)
(* times.                                                                  *)
(***************************************************************************)
Counted(A) == ncalls < MaxCalls /\ A /\ ncalls' = ncalls + 1

Uncounted(A) == A /\ UNCHANGED ncalls

Next ==
    \/ Counted(\E df \in RawInputs, value_length \in BOOLEAN :
          ConstructRaw(df, value_length, TRUE))
    \/ Counted(\E i \in DOMAIN frames : ConstructCopy(i))
    \/ Counted(\E i \in DOMAIN frames : Shape(i))
    \/ Counted(\E i \in DOMAIN frames : head(i, HeadDefault))
    \/ Counted(\E i \in DOMAIN frames : \E col \in LabelsOf(i), na_as_str \in BOOLEAN :
          GetColAsStr(i, col, na_as_str))
    \/ Counted(\E i \in DOMAIN frames : ComputeLengths(i))
    \/ Counted(\E i \in DOMAIN frames : ComputeNulls(i))
    \/ Counted(\E i \in DOMAIN frames : ComputeOther(i, "values"))
    \/ Counted(\E i \in DOMAIN frames : \E indexer \in Indexers(i) : GetItem(i, indexer))

Spec == Init /\ [][Next]_vars

\* instances built from raw input, their shape read and compute called on them
NextViews ==
    \/ Uncounted(\E df \in RawInputs, value_length, repartition \in BOOLEAN :
          ConstructRaw(df, value_length, repartition))
    \/ Uncounted(\E i \in DOMAIN frames : Shape(i))
    \/ Uncounted(\E i \in DOMAIN frames : ComputeLengths(i))
    \/ Uncounted(\E i \in DOMAIN frames : ComputeNulls(i))
    \/ Uncounted(\E i \in DOMAIN frames : ComputeOther(i, "values"))

SpecViews == Init /\ [][NextViews]_vars

\* instances built from raw input or from one another, and get_col_as_str
NextCache ==
    \/ Uncounted(\E df \in RawInputs : ConstructRaw(df, FALSE, TRUE))
    \/ Uncounted(\E i \in DOMAIN frames : ConstructCopy(i))
    \/ Uncounted(\E i \in DOMAIN frames : \E col \in LabelsOf(i), na_as_str \in BOOLEAN :
          GetColAsStr(i, col, na_as_str))

SpecCache == Init /\ [][NextCache]_vars

\* instances built from raw input, and projections of instances
NextProj ==
    \/ Uncounted(\E df \in RawInputs, value_length, repartition \in BOOLEAN :
          ConstructRaw(df, value_length, repartition))
    \/ Uncounted(\E i \in DOMAIN frames : \E indexer \in Indexers(i) : GetItem(i, indexer))

SpecProj == Init /\ [][NextProj]_vars

\* instances built from in-memory tables of several sizes
NextParts ==
    Uncounted(\E df \in SizedInputs, repartition \in BOOLEAN : ConstructRaw(df, FALSE, repartition))

SpecParts == Init /\ [][NextParts]_vars

\* instances built from tables that have the same labels, or from one another,
\* and get_col_as_str
NextFast ==
    \/ Uncounted(\E df \in FastInputs : ConstructRaw(df, FALSE, TRUE))
    \/ Uncounted(\E i \in DOMAIN frames : ConstructCopy(i))
    \/ Uncounted(\E i \in DOMAIN frames : \E col \in LabelsOf(i), na_as_str \in BOOLEAN :
          GetColAsStr(i, col, na_as_str))

SpecFast == Init /\ [][NextFast]_vars

\* instances built from raw input or from one another, head() and projections
NextHead ==
    \/ Uncounted(\E df \in RawInputs : ConstructRaw(df, FALSE, TRUE))
    \/ Uncounted(\E i \in DOMAIN frames : ConstructCopy(i))
    \/ Uncounted(\E i \in DOMAIN frames : \E n \in HeadSizes : head(i, n))
    \/ Uncounted(\E i \in DOMAIN frames : \E indexer \in Indexers(i) : GetItem(i, indexer))

SpecHead == Init /\ [][NextHead]_vars

(***************************************************************************)
(* The claims.                                                             *)
(***************************************************************************)
\* the array view of instance i
ValuesOf(i) == arrays[frames[i].values]

\* the strings of the input labels, and how many equal ones precede position i
InputStrs == [i \in DOMAIN cols_in |-> Str(cols_in[i])]
Earlier(c, i) == Cardinality({j \in 1..(i - 1) : c[j] = c[i]})
Occurrences(c, i) == Cardinality({j \in DOMAIN c : c[j] = c[i]})

\* C4, as stated: normalization keeps the order of the labels, leaves a label
\* that occurs once unchanged, keeps the first occurrence of a repeated label as
\* name and renames the later ones name_1, name_2, ... in first-seen order, so
\* that ["a","a","b"] becomes ["a","a_1","b"].
C4_FirstOccurrenceKept ==
    last.op = "process_column_name" =>
        /\ Len(cols_out) = Len(cols_in)
        /\ \A i \in DOMAIN cols_in :
              cols_out[i] = IF Occurrences(InputStrs, i) = 1 \/ Earlier(InputStrs, i) = 0
                            THEN InputStrs[i]
                            ELSE InputStrs[i] \o "_" \o ToString(Earlier(InputStrs, i))

\* C4, amended: normalization keeps the order of the labels, leaves a label that
\* occurs once unchanged, and renames every occurrence of a repeated label, the
\* first one included, name_1, name_2, ... in first-seen order, so that
\* ["a","a","b"] becomes ["a_1","a_2","b"].
C4_EveryOccurrenceNumbered ==
    last.op = "process_column_name" =>
        /\ Len(cols_out) = Len(cols_in)
        /\ \A i \in DOMAIN cols_in :
              cols_out[i] = IF Occurrences(InputStrs, i) = 1
                            THEN InputStrs[i]
                            ELSE InputStrs[i] \o "_" \o ToString(Earlier(InputStrs, i) + 1)
        /\ cols_in = <<StrLabel("a"), StrLabel("a"), StrLabel("b")>>
              => cols_out = <<"a_1", "a_2", "b">>

\* C4 witness: the labels ["a","a","b"] have been normalized.
C4_Witness ==
    /\ last.op = "process_column_name"
    /\ cols_in = <<StrLabel("a"), StrLabel("a"), StrLabel("b")>>
    /\ cols_out = <<"a_1", "a_2", "b">>

\* C1, as stated: for an instance built from raw input, after construction and
\* after any sequence of compute("lengths"), compute("nulls") and shape reads,
\* the array view's chunks are identical to the nullity view's chunks.
C1_ChunksIdentical ==
    \A i \in DOMAIN frames : ValuesOf(i).chunks = NullsChunks(frames[i].nulls)

\* C1, amended: as long as the nullity view is a lazy array its chunks are
\* identical to the array view's; once compute("nulls") has materialized it, it
\* is an in-memory array without chunks, the array view's row chunks are all
\* known and add up to its row count, and the column counts agree.
C1_ChunksIdenticalWhileLazy ==
    \A i \in DOMAIN frames :
        IF frames[i].nulls.kind = "lazy"
        THEN ValuesOf(i).chunks = NullsChunks(frames[i].nulls)
        ELSE /\ NullsChunks(frames[i].nulls) = <<>>
             /\ \A k \in DOMAIN ValuesOf(i).chunks[1] : ValuesOf(i).chunks[1][k] # Nan
             /\ ArrayShape(ValuesOf(i).chunks) = NullsShape(frames[i].nulls)

\* C1 witness: compute("nulls") has materialized the nullity view of an instance
\* whose table has several partitions.
C1_Witness ==
    /\ last.op = "compute" /\ last.mode = "nulls" /\ ~last.err
    /\ frames[last.inst].nulls.kind = "ndarray"
    /\ Len(ValuesOf(last.inst).chunks[1]) > 1

\* C2, as stated: on an instance whose row count is unresolved, after
\* compute("lengths") reading shape yields a known row count, and a following
\* compute("nulls") leaves shape[0] as it was.
C2_LengthsResolveShape ==
    [][/\ (/\ last'.op = "compute" /\ last'.mode = "lengths"
           /\ SumChunks(ValuesOf(last'.inst).chunks[1]) = Nan)
          => ReadShape(frames'[last'.inst], arrays').shape.rows # Nan
       /\ (/\ last'.op = "compute" /\ last'.mode = "nulls"
           /\ last.op = "compute" /\ last.mode = "lengths" /\ last.inst = last'.inst)
          => ReadShape(frames'[last'.inst], arrays').shape.rows
                 = ReadShape(frames[last.inst], arrays).shape.rows]_vars

\* C8, as stated: reading shape on an instance whose row count is unresolved
\* resolves the row count, so the shape returned and cached has a known row count.
C8_ShapeReadResolves ==
    last.op = "shape" =>
        /\ frames[last.inst].shape.cached
        /\ frames[last.inst].shape.rows # Nan

\* C8, amended: reading shape when no shape is cached stores the array view's
\* current shape in the cache and returns it, and a later read returns the cached
\* tuple; the read changes neither the array view nor the nullity view and
\* resolves nothing: the row count returned is known only if the array view's
\* row chunks were known already.
C8_ShapeReadCachesCurrentShape ==
    [][last'.op = "shape" =>
          LET i == last'.inst IN
          /\ arrays' = arrays
          /\ frames'[i].nulls = frames[i].nulls /\ frames'[i].values = frames[i].values
          /\ frames'[i].shape.cached
          /\ <<frames'[i].shape.rows, frames'[i].shape.ncols>>
                = IF frames[i].shape.cached
                  THEN <<frames[i].shape.rows, frames[i].shape.ncols>>
                  ELSE ArrayShape(ValuesOf(i).chunks)
          /\ (~frames[i].shape.cached /\ \E k \in DOMAIN ValuesOf(i).chunks[1] :
                                             ValuesOf(i).chunks[1][k] = Nan)
                => frames'[i].shape.rows = Nan]_vars

\* C8 witness: shape has been read on an instance whose row count is unresolved;
\* the nullity view is still lazy and the cached row count is unknown.
C8_Witness ==
    /\ last.op = "shape"
    /\ frames[last.inst].shape.cached /\ frames[last.inst].shape.rows = Nan
    /\ frames[last.inst].nulls.kind = "lazy"
    /\ SumChunks(ValuesOf(last.inst).chunks[1]) = Nan

\* the string-coercion cache instance i sees
CacheOf(i) == caches[frames[i].str_col_cache]

\* instance j was built independently of instance i from raw input, or is the
\* instance i was copy-constructed from
BuiltApart(i, j) ==
    \/ frames[i].origin.kind = "raw" /\ frames[j].origin.kind = "raw"
    \/ frames[i].origin.kind = "copy" /\ frames[i].origin.from = j

\* C3, as stated: each instance exclusively owns its string-coercion cache: a
\* get_col_as_str call on one instance adds or changes no entry that an instance
\* built independently from raw input, or the instance it was copied from, sees in
\* its own cache, and returns no column that another instance cached.
C3_CacheOwned ==
    [][last'.op = "get_col_as_str" =>
          /\ \A j \in DOMAIN frames \ {last'.inst} :
                BuiltApart(last'.inst, j)
                   => caches'[frames[j].str_col_cache] = caches[frames[j].str_col_cache]
          /\ last'.ret.by \in {0, last'.inst}]_vars

\* the call made last and the call being made are get_col_as_str(c, False) on
\* the same instance, for an existing column c
SameCallTwice ==
    /\ last.op = "get_col_as_str" /\ last'.op = "get_col_as_str"
    /\ last'.inst = last.inst /\ last'.col = last.col
    /\ ~last.flag /\ ~last'.flag /\ ~last.err

\* C6, as stated: for every existing column c, whatever its semantic dtype, the
\* second of two consecutive calls get_col_as_str(c, False) on an instance
\* returns the identical object and performs no coercion.
C6_SecondCallIdentical ==
    [][SameCallTwice => last'.ret = last.ret /\ ~last'.coerced]_vars

\* C6, amended: the second of two consecutive calls get_col_as_str(c, False)
\* performs no coercion; it returns the identical object when c is not nominal,
\* or when (c, False) is in the cache the instance sees; for a nominal column
\* without such an entry each call returns a new object, the table's column,
\* and stores nothing.
C6_SecondCallIdenticalUnlessDirect ==
    [][SameCallTwice =>
          LET f == frames[last.inst]
              cached == InCache(CacheOf(last.inst), last.col, FALSE)
              nominal == Lookup(f.eda_dtypes, last.col) = "Nominal"
          IN  /\ ~last'.coerced
              /\ (~nominal \/ cached) => last'.ret = last.ret /\ last.ret.how # "column"
              /\ (nominal /\ ~cached)
                    => /\ last'.ret # last.ret
                       /\ last'.ret.how = "column"
                       /\ caches' = caches]_vars

\* C6 witness: a second call get_col_as_str(c, False) has returned the object
\* the first call of the same instance coerced and cached.
C6_Witness ==
    /\ last.op = "get_col_as_str" /\ ~last.flag /\ ~last.err /\ ~last.coerced
    /\ last.ret.how = "str_if_not_na" /\ last.ret.by = last.inst

\* C5: after p = s[cols] with cols distinct labels of s, the dtype map and the
\* missing-count map of p have exactly the labels cols as keys with the values
\* of s, the string-coercion cache of p holds exactly the entries of the cache
\* of s whose column is in cols, and the array view and the nullity view of p
\* are those of s sliced at the positions of cols in the columns of s.
C5_ProjectionCarriesSourceState ==
    (last.op = "getitem" /\ ~last.err) =>
        LET src == frames[last.inst]
            p == frames[last.new]
            cols == last.cols
            at == [k \in DOMAIN cols |-> IndexOf(src.columns, cols[k])]
            sv == ValuesOf(last.inst)
            pv == ValuesOf(last.new)
        IN  /\ Keys(p.eda_dtypes) = cols /\ Keys(p.nulls_cnt) = cols
            /\ \A k \in DOMAIN cols :
                  /\ p.eda_dtypes[k].v = src.eda_dtypes[at[k]].v
                  /\ src.eda_dtypes[at[k]].k = cols[k]
                  /\ p.nulls_cnt[k].v = src.nulls_cnt[at[k]].v
                  /\ src.nulls_cnt[at[k]].k = cols[k]
            /\ CacheOf(last.new) = {e \in CacheOf(last.inst) : \E k \in DOMAIN cols : e.col = cols[k]}
            /\ pv.tbl = sv.tbl /\ pv.pos = Take(sv.pos, at) /\ pv.chunks[1] = sv.chunks[1]
            /\ p.nulls.tbl = src.nulls.tbl /\ p.nulls.pos = Take(src.nulls.pos, at)
            /\ p.nulls.kind = src.nulls.kind /\ p.nulls.nrows = src.nulls.nrows
            /\ p.nulls.kind = "lazy" => p.nulls.chunks[1] = src.nulls.chunks[1]

\* C5 witness: a projection has dropped a column although the source's cache
\* held an entry for it, and has kept an entry of a column it retains.
C5_Witness ==
    /\ last.op = "getitem" /\ ~last.err
    /\ CacheOf(last.new) # {}
    /\ \E e \in CacheOf(last.inst) : e.col \notin Range(last.cols)

\* C7: get_col_as_str with a label the instance does not have, and compute with
\* a mode other than "lengths" and "nulls", fail and leave every instance, array
\* view, nullity view and cache as they were.
C7_ErrorsChangeNothing ==
    [][(/\ last'.err
        /\ \/ last'.op = "get_col_as_str"
           \/ last'.op = "compute" /\ last'.mode \notin {"lengths", "nulls"})
          => frames' = frames /\ arrays' = arrays /\ caches' = caches]_vars

\* C7 witness: compute has failed on a mode it does not support, on an instance
\* that holds a string-coercion cache entry but has no shape cached yet.
C7_Witness ==
    /\ last.op = "compute" /\ last.mode = "values" /\ last.err
    /\ CacheOf(last.inst) # {}
    /\ ~frames[last.inst].shape.cached

\* one of the instances i and j is a projection of the other
Projected(i, j) ==
    \/ frames[j].origin.kind = "proj" /\ frames[j].origin.from = i
    \/ frames[i].origin.kind = "proj" /\ frames[i].origin.from = j

\* all that instance j holds and sees, in the state given
Seen(frs, arrs, cs, j) ==
    [frame |-> frs[j], values |-> arrs[frs[j].values], cache |-> cs[frs[j].str_col_cache]]

\* C9: a get_col_as_str, head, shape or compute call on a projection leaves the
\* cache, the maps, the head, the shape and the views of its source unchanged,
\* and such a call on the source leaves those of the projection unchanged.
C9_ProjectionIndependent ==
    [][last'.op \in {"get_col_as_str", "head", "shape", "compute"} =>
          \A j \in DOMAIN frames :
              Projected(last'.inst, j)
                 => Seen(frames', arrays', caches', j) = Seen(frames, arrays, caches, j)]_vars

\* C9 witness: get_col_as_str on a projection has coerced a column and stored it.
C9_Witness ==
    /\ last.op = "get_col_as_str" /\ last.coerced
    /\ frames[last.inst].origin.kind = "proj"
    /\ \E e \in CacheOf(last.inst) : e.ser = last.ret

C17_PartitionCountAtLeastOne ==
    (last.op = "construct" /\ last.part.pandas) =>
        IF last.part.repartition
        THEN /\ last.part.npartitions = Ceil(last.part.df_size, ChunkBytes)
             /\ last.part.npartitions >= 1
             /\ ~last.err
        ELSE /\ last.part.npartitions = 1
             /\ ~last.err
             /\ Len(frames[last.new].ddf.parts) = 1

\* C11, as stated: whatever the input labels, the labels normalization
\* produces are pairwise distinct.
C11_LabelsDistinct ==
    last.op = "process_column_name" => IsDistinct(cols_out)

\* position i holds a label that occurs once and equals the name name_k given
\* to occurrence k of the repeated label at position j
CollidesWith(i, j) ==
    /\ Occurrences(InputStrs, i) = 1
    /\ Occurrences(InputStrs, j) > 1
    /\ InputStrs[i] = InputStrs[j] \o "_" \o ToString(Earlier(InputStrs, j) + 1)

\* C11, amended: the labels produced are pairwise distinct exactly when no
\* label occurring once among the stringified input labels equals the name
\* name_k given to an occurrence of a repeated label; two produced labels are
\* equal only if one is such a label and the other the renamed occurrence.
C11_LabelsDistinctUnlessRenamedCollides ==
    last.op = "process_column_name" =>
        /\ Len(cols_out) = Len(cols_in)
        /\ \A i, j \in DOMAIN cols_in :
               (i # j /\ cols_out[i] = cols_out[j]) <=> (CollidesWith(i, j) \/ CollidesWith(j, i))

\* C11 witness: normalization has renamed the occurrences of a repeated label
\* next to a label that looks like a renamed one but does not collide, and the
\* labels produced are distinct.
C11_Witness ==
    /\ last.op = "process_column_name"
    /\ InputStrs = <<"a", "a_1", "a_1">>
    /\ cols_out = <<"a", "a_1_1", "a_1_2">>

\* what the elements of an array view are: the cells of which table columns, in
\* which order and of which shape
ArrayValue(arr) == [tbl |-> arr.tbl, pos |-> arr.pos, shape |-> ArrayShape(arr.chunks)]

\* what the elements of a nullity view are
NullsValue(nulls) ==
    [kind |-> nulls.kind, tbl |-> nulls.tbl, pos |-> nulls.pos, shape |-> NullsShape(nulls)]

\* C12: the projection of an instance onto all of its columns in their order
\* has an array view and a nullity view value-equal to the source's (the same
\* cells in the same order and the same shape), and a dtype map and
\* missing counts equal to the source's.
C12_FullProjectionRoundTrip ==
    (last.op = "getitem" /\ ~last.err /\ last.cols = frames[last.inst].columns) =>
        LET src == frames[last.inst]
            prj == frames[last.new]
        IN  /\ ArrayValue(ValuesOf(last.new)) = ArrayValue(ValuesOf(last.inst))
            /\ NullsValue(prj.nulls) = NullsValue(src.nulls)
            /\ prj.eda_dtypes = src.eda_dtypes
            /\ prj.nulls_cnt = src.nulls_cnt
            /\ prj.columns = src.columns

\* C12 witness: an instance with three columns of different native dtypes and
\* a materialized nullity view has been projected onto all of its columns.
C12_Witness ==
    /\ last.op = "getitem" /\ ~last.err
    /\ last.cols = frames[last.inst].columns
    /\ Len(last.cols) = 3
    /\ frames[last.inst].nulls.kind = "ndarray"
    /\ frames[last.new].origin.kind = "proj"

\* one of the instances i and j was copy-constructed from the other
CopyOf(i, j) ==
    \/ frames[j].origin.kind = "copy" /\ frames[j].origin.from = i
    \/ frames[i].origin.kind = "copy" /\ frames[i].origin.from = j

\* C13, as stated: when one of two instances was copy-constructed from the
\* other, compute("lengths") and compute("nulls") on one of them leave the chunks
\* of the other's array view unchanged, so that the other's array view and
\* nullity view still have identical chunks if they had before.
C13_SharedArraysNotMutated ==
    [][(last'.op = "compute" /\ last'.mode \in {"lengths", "nulls"}) =>
          \A j \in DOMAIN frames \ {last'.inst} :
              CopyOf(last'.inst, j) =>
                 /\ arrays'[frames'[j].values].chunks = ValuesOf(j).chunks
                 /\ ValuesOf(j).chunks = NullsChunks(frames[j].nulls)
                       => arrays'[frames'[j].values].chunks = NullsChunks(frames'[j].nulls)]_vars

\* the array view of instance i carries concrete row chunk lengths
RowsKnown(i) == \A k \in DOMAIN ValuesOf(i).chunks[1] : ValuesOf(i).chunks[1][k] # Nan

\* C14, as stated: once the array view carries concrete row chunk lengths,
\* whatever shape reads were made, compute("lengths") leaves the array view and
\* the nullity view as they were, a materialized nullity view included.
C14_LengthsOnlyWhileUnknown ==
    [][(last'.op = "compute" /\ last'.mode = "lengths" /\ RowsKnown(last'.inst)) =>
          /\ arrays'[frames'[last'.inst].values] = ValuesOf(last'.inst)
          /\ frames'[last'.inst].nulls = frames[last'.inst].nulls]_vars

\* column c of instance f is nominal, and na_as_str is false or c has no missing value
FastCase(f, c, na_as_str) ==
    /\ Lookup(f.eda_dtypes, c) = "Nominal"
    /\ ~na_as_str \/ Lookup(f.nulls_cnt, c) = 0

\* ser is column c of the table of instance f, as it is
OwnColumn(f, c, ser) ==
    /\ ser.how = "column"
    /\ ser.tbl = f.ddf.tbl
    /\ ser.pos = f.ddf.pos[IndexOf(f.columns, c)]

\* C15, as stated: for a nominal column with na_as_str false or without missing
\* values get_col_as_str returns the instance's own table column and adds no
\* entry to the cache; in every other case the first call on an existing column,
\* here the call made on an instance right after it was built, adds the entry
\* (c, na_as_str) and no other.
C15_FastPath ==
    [][(last'.op = "get_col_as_str" /\ ~last'.err) =>
          LET f == frames[last'.inst]
              c == last'.col
              before == caches[f.str_col_cache]
              after == caches'[f.str_col_cache]
          IN  IF FastCase(f, c, last'.flag)
              THEN OwnColumn(f, c, last'.ret) /\ after = before
              ELSE (last.op \in {"construct", "copy"} /\ last.new = last'.inst) =>
                      /\ before \subseteq after
                      /\ {<<e.col, e.flag>> : e \in after \ before} = {<<c, last'.flag>>}]_vars

\* C16: head(n) on an instance that holds no sample reads the first n rows of
\* its table (as many as the first partition has) and keeps them; on an instance
\* that holds a sample it returns that sample as it is, whatever n.  A
\* projection holds a sample exactly if its source held one when it was made,
\* and then it is the source's sample narrowed to the retained columns.
C16_HeadReused ==
    [][/\ last'.op = "head" =>
             LET f == frames[last'.inst]
                 g == frames'[last'.inst]
             IN  IF f.head.cached
                 THEN g.head = f.head
                 ELSE /\ g.head.cached
                      /\ g.head.n = last'.n
                      /\ g.head.rows = Min(last'.n, f.ddf.parts[1])
                      /\ g.head.tbl = f.ddf.tbl
                      /\ g.head.columns = f.columns /\ g.head.pos = f.ddf.pos
       /\ (last'.op = "getitem" /\ ~last'.err) =>
             LET src == frames[last'.inst]
                 prj == frames'[last'.new]
             IN  /\ prj.head.cached <=> src.head.cached
                 /\ src.head.cached =>
                       /\ prj.head.n = src.head.n /\ prj.head.rows = src.head.rows
                       /\ prj.head.tbl = src.head.tbl
                       /\ prj.head.columns = last'.cols
                       /\ \A k \in DOMAIN last'.cols :
                              prj.head.pos[k]
                                 = src.head.pos[IndexOf(src.head.columns, last'.cols[k])]]_vars

\* C16 witness: head(5) has been called on a projection that took over the
\* one-row sample of its source, and the sample it holds is still that one.
C16_Witness ==
    /\ last.op = "head" /\ last.n = HeadDefault
    /\ frames[last.inst].origin.kind = "proj"
    /\ frames[last.inst].head.cached /\ frames[last.inst].head.n = 1
    /\ frames[frames[last.inst].origin.from].head.n = 1
    /\ Len(frames[last.inst].columns) < Len(frames[frames[last.inst].origin.from].columns)

====
